---- MODULE Spec2Model ----
(***************************************************************************)
(* File transfer over a persistent connection: the server's store and     *)
(* retrieve exchanges (src/server/server_saloni.go and its sibling        *)
(* src/server/saloni_server.go), the client's put and get                 *)
(* (src/unnamed/part_000), the framed channel between them and the        *)
(* server's filesystem.                                                    *)
(*                                                                         *)
(* A connection is a pair of byte streams.  A framed message is a length  *)
(* prefix followed by that many serialized bytes; file payloads are raw   *)
(* bytes between frames.  Streams are sequences of naturals.               *)
(***************************************************************************)
EXTENDS Naturals, Sequences, FiniteSets

\* ---------------------------------------------------------------- bounds
\* Largest payload byte value explored (bytes are 0..MaxByte).
MaxByte == 1
\* Longest file / declared size explored.
MaxLen == 2
\* Number of connections.
NumConn == 2
\* Items (frames or raw bytes) a free-form client may write.
MaxRaw == 3
\* Stream elements the transport may corrupt in one run.
MaxCorrupt == 1
\* Items a free-form client may write while the client program runs beside it.
MaxMixedRaw == 2

Conns == 1..NumConn
Byte == 0..MaxByte
Payloads == UNION {[1..n -> Byte] : n \in 0..MaxLen}

\* ------------------------------------------------------------ file names
\* A file name is the sequence of its "/"-separated components.
NameTable == << <<"a">>, <<"d", "a">> >>
Names == {NameTable[i] : i \in DOMAIN NameTable}
NameCode(n) == CHOOSE i \in DOMAIN NameTable : NameTable[i] = n

\* The directories of the server's storage directory, and those a download
\* directory may hold (an empty one holds none).  Neither program creates a
\* directory.
ServerDirs == {"d"}
DownloadDirs == {{}, {"d"}}

\* os.OpenFile / os.Stat resolve a name only if its parent directory exists.
ParentExists(name, dirs) == \A i \in 1..(Len(name) - 1) : name[i] \in dirs

\* saloni_server.go: strings.Split(fileName, "/") and its last element.
BaseName(name) == <<name[Len(name)]>>

KeepDirsMutant(b, name) == name
\* The name handleStorage creates, per build of the server.
StoreName(b, name) == IF b = "saloni_server" THEN BaseName(name) ELSE name

\* ------------------------------------------------------------------ md5
\* crypto/md5 as an incremental hash: New, Write one byte, Sum.  The fold is
\* injective on the byte sequences explored (digits 1..MaxByte+2 in base
\* MaxByte+2), as md5 is on inputs this small; values stay far below 2^128.
MD5New == 0
MD5Write(h, b) == h * (MaxByte + 2) + b + 1
RECURSIVE MD5Of(_)
MD5Of(s) == IF s = <<>> THEN MD5New
            ELSE MD5Write(MD5Of(SubSeq(s, 1, Len(s) - 1)), s[Len(s)])

VerifyAlwaysMutant(a, b) == TRUE
\* util.VerifyChecksum: the two digests are equal byte for byte.
VerifyChecksum(a, b) == a = b

\* ---------------------------------------------------------- the envelope
Variants == <<"StorageReq", "RetrievalReq", "Response", "RetrievalResp", "Checksum">>
Tag(t) == CHOOSE i \in DOMAIN Variants : Variants[i] = t
Texts == <<"Ready for data", "File stored successfully", "Checksum mismatch",
           "Ready to send", "error">>
TextCode(m) == CHOOSE i \in DOMAIN Texts : Texts[i] = m
Bit(b) == IF b THEN 1 ELSE 0

StorageReq(name, size) == [t |-> "StorageReq", fileName |-> name, size |-> size]
RetrievalReq(name) == [t |-> "RetrievalReq", fileName |-> name]
Response(ok, msg) == [t |-> "Response", ok |-> ok, msg |-> msg]
RetrievalResp(ok, msg, size) == [t |-> "RetrievalResp", ok |-> ok, msg |-> msg, size |-> size]
Checksum(sum) == [t |-> "Checksum", checksum |-> sum]
Empty == [t |-> "Empty"]
Malformed == [t |-> "Malformed"]

\* The serialized bytes of an envelope; the empty envelope serializes to none.
Serialize(env) ==
  CASE env.t = "StorageReq" -> <<Tag(env.t), NameCode(env.fileName), env.size>>
    [] env.t = "RetrievalReq" -> <<Tag(env.t), NameCode(env.fileName)>>
    [] env.t = "Response" -> <<Tag(env.t), Bit(env.ok), TextCode(env.msg)>>
    [] env.t = "RetrievalResp" -> <<Tag(env.t), Bit(env.ok), TextCode(env.msg), env.size>>
    [] env.t = "Checksum" -> <<Tag(env.t), env.checksum>>
    [] OTHER -> <<>>

\* A frame: the length prefix, then the serialized envelope.
Frame(env) == <<Len(Serialize(env))>> \o Serialize(env)

\* The envelope a frame body decodes to, Malformed if it decodes to none.
Deserialize(body) ==
  IF body = <<>> THEN Empty
  ELSE IF body[1] = Tag("StorageReq") /\ Len(body) = 3 /\ body[2] \in DOMAIN NameTable
    THEN StorageReq(NameTable[body[2]], body[3])
  ELSE IF body[1] = Tag("RetrievalReq") /\ Len(body) = 2 /\ body[2] \in DOMAIN NameTable
    THEN RetrievalReq(NameTable[body[2]])
  ELSE IF body[1] = Tag("Response") /\ Len(body) = 3 /\ body[2] \in {0, 1}
          /\ body[3] \in DOMAIN Texts
    THEN Response(body[2] = 1, Texts[body[3]])
  ELSE IF body[1] = Tag("RetrievalResp") /\ Len(body) = 4 /\ body[2] \in {0, 1}
          /\ body[3] \in DOMAIN Texts
    THEN RetrievalResp(body[2] = 1, Texts[body[3]], body[4])
  ELSE IF body[1] = Tag("Checksum") /\ Len(body) = 2
    THEN Checksum(body[2])
  ELSE Malformed

Drop(s, n) == SubSeq(s, n + 1, Len(s))

\* MessageHandler.Receive on a stream whose writer has or has not closed:
\* "block" (no complete frame yet), "eof" (closed, nothing pending), "err"
\* (closed inside a frame, or an undecodable body) or "msg" with the envelope;
\* rest is the stream after the frame.
Receive(stream, closed) ==
  IF stream = <<>>
    THEN [st |-> IF closed THEN "eof" ELSE "block", env |-> Malformed, rest |-> stream]
  ELSE IF Len(stream) < stream[1] + 1
    THEN [st |-> IF closed THEN "err" ELSE "block", env |-> Malformed,
          rest |-> IF closed THEN <<>> ELSE stream]
  ELSE LET env == Deserialize(SubSeq(stream, 2, stream[1] + 1))
       IN [st |-> IF env = Malformed THEN "err" ELSE "msg", env |-> env,
           rest |-> Drop(stream, stream[1] + 1)]

\* ---------------------------------------------------------------- state
VARIABLES
  build,       \* which server source is running: "server_saloni" or "saloni_server"
  serverUp,    \* the server process is alive (FALSE after a panic)
  fs,          \* server namespace: name -> inode, 0 when the name is absent
  data,        \* inode -> the bytes of the file
  srv,         \* per connection: the handler goroutine (position and locals)
  c2s,         \* per connection: bytes written by the client, not yet read
  s2c,         \* per connection: bytes written by the server, not yet read
  cClosed,     \* per connection: the client end is closed
  kind,        \* per connection: what runs at the client end
  cname,       \* per connection: the client's file-name argument
  csrc,        \* per connection: the local file a put reads
  cdirs,       \* per connection: the directories of the download directory
  cli,         \* per connection: the client (position, locals, result)
  lfile,       \* per connection: the file of that name in the download directory
  rawLeft,     \* items the free-form client may still write
  corruptLeft  \* stream elements the transport may still corrupt

vars == <<build, serverUp, fs, data, srv, c2s, s2c, cClosed, kind, cname, csrc,
          cdirs, cli, lfile, rawLeft, corruptLeft>>
cfgVars == <<build, kind, cname, csrc, cdirs>>
cliVars == <<cli, lfile>>
envVars == <<rawLeft, corruptLeft>>

Inodes == 1..(Len(NameTable) + NumConn)
NoFile == [exists |-> FALSE, bytes |-> <<>>]
File(bytes) == [exists |-> TRUE, bytes |-> bytes]

\* A handler goroutine that is not inside an exchange.  err is the error the
\* exchange it last ran returned to handleClient ("" for nil), until the
\* loop's next Receive returns.
Handler(pc) ==
  [pc |-> pc, name |-> <<>>, size |-> 0, fd |-> 0, h |-> MD5New, off |-> 0, err |-> ""]

CloseOnErrorMutant(err) == IF err = "" THEN "recv" ELSE "closed"
CloseAfterExchangeMutant(err) == "closed"
\* handleClient after handleStorage or handleRetrieval returns: an error is
\* logged, and either way the loop goes round to Receive.
AfterExchange(err) == "recv"

\* The handler once its exchange has returned err.
Returned(err) == [Handler(AfterExchange(err)) EXCEPT !.err = err]
\* A client that is not inside its copy loop; after: the connections whose
\* client had already returned success when this client was started.
Client(pc, res, after) == [pc |-> pc, res |-> res, h |-> MD5New, n |-> 0, after |-> after]

CloseDropsAllMutant(f, s, d) == [i \in Inodes |-> <<>>]
\* The inodes a name or an open descriptor still refers to keep their bytes;
\* the filesystem frees the others.
Referenced(f, s, i) == (\E n \in Names : f[n] = i) \/ (\E c \in Conns : s[c].fd = i)
Reclaim(f, s, d) == [i \in Inodes |-> IF Referenced(f, s, i) THEN d[i] ELSE <<>>]
FreeInode == CHOOSE i \in Inodes : ~Referenced(fs, srv, i)

\* os.Stat / os.Open succeed on the server.
Exists(name) == ParentExists(name, ServerDirs) /\ fs[name] # 0
CreateNoExclMutant(name) == ParentExists(name, ServerDirs)
\* os.OpenFile(name, O_CREATE|O_EXCL|O_WRONLY) succeeds on the server.
CanCreate(name) == ParentExists(name, ServerDirs) /\ fs[name] = 0

SClosed(c) == srv[c].pc = "closed"

\* What the existing files of the storage directory hold at start.
InitBytes(name) == IF Len(name) = 1 THEN <<0, 1>> ELSE <<1>>
InitFs(present) == [n \in Names |-> IF n \in present THEN NameCode(n) ELSE 0]
InitData(present) ==
  [i \in Inodes |-> IF i \in DOMAIN NameTable /\ NameTable[i] \in present
                    THEN InitBytes(NameTable[i]) ELSE <<>>]

\* ------------------------------------------------------ server: dispatch
\* main: listener.Accept, then go handleClient.
Accept(c) ==
  /\ serverUp
  /\ srv[c].pc = "none"
  /\ cli[c].pc # "init"
  /\ srv' = [srv EXCEPT ![c] = Handler("recv")]
  /\ UNCHANGED <<serverUp, fs, data, c2s, s2c, cClosed, cfgVars, cliVars, envVars>>

\* handleStorage up to its first Response: the exclusive create.
StorageBegin(c, req, rest) ==
  LET name == StoreName(build, req.fileName) IN
  IF CanCreate(name)
  THEN LET i == FreeInode
           s == [srv EXCEPT ![c] = [pc |-> IF req.size = 0 THEN "cksum" ELSE "copy",
                                    name |-> name, size |-> req.size, fd |-> i,
                                    h |-> MD5New, off |-> 0, err |-> ""]]
       IN /\ fs' = [fs EXCEPT ![name] = i]
          /\ data' = [data EXCEPT ![i] = <<>>]
          /\ srv' = s
          /\ s2c' = [s2c EXCEPT ![c] = @ \o Frame(Response(TRUE, "Ready for data"))]
          /\ c2s' = [c2s EXCEPT ![c] = rest]
  ELSE /\ s2c' = [s2c EXCEPT ![c] = @ \o Frame(Response(FALSE, "error"))]
       /\ c2s' = [c2s EXCEPT ![c] = rest]
       /\ srv' = [srv EXCEPT ![c] = Returned("open")]
       /\ UNCHANGED <<fs, data>>

\* handleRetrieval up to os.Stat.
RetrievalBegin(c, req, rest) ==
  IF Exists(req.fileName)
  THEN /\ srv' = [srv EXCEPT ![c] = [pc |-> "open", name |-> req.fileName,
                                     size |-> Len(data[fs[req.fileName]]), fd |-> 0,
                                     h |-> MD5New, off |-> 0, err |-> ""]]
       /\ c2s' = [c2s EXCEPT ![c] = rest]
       /\ UNCHANGED <<fs, data, s2c>>
  ELSE /\ s2c' = [s2c EXCEPT ![c] = @ \o Frame(RetrievalResp(FALSE, "error", 0))]
       /\ c2s' = [c2s EXCEPT ![c] = rest]
       /\ srv' = [srv EXCEPT ![c] = Returned("stat")]
       /\ UNCHANGED <<fs, data>>

ReturnOnUnexpectedMutant(t) == t \notin {"StorageReq", "RetrievalReq"}
\* handleClient: the envelope variants on which the loop returns.
ClosesLoop(t) == t = "Empty"

\* handleClient: one turn of the loop, from Receive to the start of an exchange.
HandleClient(c) ==
  /\ serverUp
  /\ srv[c].pc = "recv"
  /\ LET r == Receive(c2s[c], cClosed[c]) IN
     /\ r.st # "block"
     /\ IF r.st # "msg" \/ ClosesLoop(r.env.t)
        THEN /\ srv' = [srv EXCEPT ![c] = Handler("closed")]
             /\ c2s' = [c2s EXCEPT ![c] = r.rest]
             /\ UNCHANGED <<fs, data, s2c>>
        ELSE IF r.env.t = "StorageReq" THEN StorageBegin(c, r.env, r.rest)
        ELSE IF r.env.t = "RetrievalReq" THEN RetrievalBegin(c, r.env, r.rest)
        ELSE /\ c2s' = [c2s EXCEPT ![c] = r.rest]
             /\ srv' = [srv EXCEPT ![c] = Handler("recv")]
             /\ UNCHANGED <<fs, data, s2c>>
  /\ UNCHANGED <<serverUp, cClosed, cfgVars, cliVars, envVars>>

\* ------------------------------------------------- server: store exchange
SkipRemoveMutant(f, name) == f
\* os.Remove(name): the name no longer refers to any file.
Remove(f, name) == [f EXCEPT ![name] = 0]

\* handleStorage returns with an error after deleting the file it created.
StorageAbort(c, err, rest) ==
  LET f == Remove(fs, srv[c].name)
      s == [srv EXCEPT ![c] = Returned(err)]
  IN /\ fs' = f
     /\ srv' = s
     /\ data' = Reclaim(f, s, data)
     /\ c2s' = [c2s EXCEPT ![c] = rest]

OverwriteMutant(bytes, b) == <<b>>
\* file.Write through the descriptor handleStorage opened: the byte is
\* appended to the file.
WriteFile(bytes, b) == Append(bytes, b)

\* handleStorage: io.CopyN(io.MultiWriter(file, h), msgHandler, size), one
\* byte at a time; the stream closing first is the short read.
StorageCopy(c) ==
  /\ serverUp
  /\ srv[c].pc = "copy"
  /\ IF c2s[c] # <<>>
     THEN LET b == Head(c2s[c]) IN
          /\ data' = [data EXCEPT ![srv[c].fd] = WriteFile(@, b)]
          /\ srv' = [srv EXCEPT ![c].h = MD5Write(@, b),
                                ![c].size = @ - 1,
                                ![c].pc = IF srv[c].size = 1 THEN "cksum" ELSE "copy"]
          /\ c2s' = [c2s EXCEPT ![c] = Tail(@)]
          /\ UNCHANGED fs
     ELSE /\ cClosed[c]
          /\ StorageAbort(c, "receiving data", <<>>)
  /\ UNCHANGED <<serverUp, s2c, cClosed, cfgVars, cliVars, envVars>>

\* handleStorage from the Receive of the trailing checksum to its return.
\* An envelope of another variant makes GetChecksum() nil, and reading its
\* Checksum field panics: the process dies with every connection.
StorageChecksum(c) ==
  /\ serverUp
  /\ srv[c].pc = "cksum"
  /\ LET r == Receive(c2s[c], cClosed[c]) IN
     /\ r.st # "block"
     /\ IF r.st # "msg"
        THEN /\ StorageAbort(c, "receiving checksum", r.rest)
             /\ UNCHANGED <<serverUp, s2c>>
        ELSE IF r.env.t # "Checksum"
        THEN /\ serverUp' = FALSE
             /\ srv' = [x \in Conns |-> Handler("closed")]
             /\ data' = Reclaim(fs, [x \in Conns |-> Handler("closed")], data)
             /\ c2s' = [c2s EXCEPT ![c] = r.rest]
             /\ UNCHANGED <<fs, s2c>>
        ELSE IF ~VerifyChecksum(srv[c].h, r.env.checksum)
        THEN /\ StorageAbort(c, "checksum mismatch", r.rest)
             /\ s2c' = [s2c EXCEPT ![c] = @ \o Frame(Response(FALSE, "Checksum mismatch"))]
             /\ UNCHANGED serverUp
        ELSE /\ srv' = [srv EXCEPT ![c] = Returned("")]
             /\ data' = Reclaim(fs, [srv EXCEPT ![c] = Returned("")], data)
             /\ s2c' = [s2c EXCEPT ![c] = @ \o Frame(Response(TRUE, "File stored successfully"))]
             /\ c2s' = [c2s EXCEPT ![c] = r.rest]
             /\ UNCHANGED <<serverUp, fs>>
  /\ UNCHANGED <<cClosed, cfgVars, cliVars, envVars>>

\* ---------------------------------------------- server: retrieve exchange
\* handleRetrieval: os.Open and the RetrievalResponse that follows it; the
\* size it declares is the one os.Stat returned.
RetrievalOpen(c) ==
  /\ serverUp
  /\ srv[c].pc = "open"
  /\ IF Exists(srv[c].name)
     THEN /\ srv' = [srv EXCEPT ![c].pc = "send", ![c].fd = fs[srv[c].name]]
          /\ s2c' = [s2c EXCEPT ![c] = @ \o Frame(RetrievalResp(TRUE, "Ready to send", srv[c].size))]
     ELSE /\ srv' = [srv EXCEPT ![c] = Returned("open")]
          /\ s2c' = [s2c EXCEPT ![c] = @ \o Frame(RetrievalResp(FALSE, "error", 0))]
  /\ UNCHANGED <<serverUp, fs, data, c2s, cClosed, cfgVars, cliVars, envVars>>

CopyNMutant(bytes, off, size) == off < Len(bytes) /\ off < size
SendNothingMutant(bytes, off, size) == FALSE
\* io.Copy(dst, file): there is a next byte to send until the file's end.
MoreToSend(bytes, off, size) == off < Len(bytes)

\* handleRetrieval: io.Copy(io.MultiWriter(msgHandler, h), file), one byte
\* at a time, then the trailing checksum.  A write to a connection the client
\* has closed may fail.
RetrievalSend(c) ==
  /\ serverUp
  /\ srv[c].pc = "send"
  /\ \E fails \in (IF cClosed[c] THEN BOOLEAN ELSE {FALSE}) :
       IF MoreToSend(data[srv[c].fd], srv[c].off, srv[c].size)
       THEN IF fails
            THEN /\ srv' = [srv EXCEPT ![c] = Returned("sending data")]
                 /\ data' = Reclaim(fs, [srv EXCEPT ![c] = Returned("sending data")], data)
                 /\ UNCHANGED s2c
            ELSE LET b == data[srv[c].fd][srv[c].off + 1] IN
                 /\ srv' = [srv EXCEPT ![c].h = MD5Write(@, b), ![c].off = @ + 1]
                 /\ s2c' = [s2c EXCEPT ![c] = Append(@, b)]
                 /\ UNCHANGED data
       ELSE /\ ~fails
            /\ srv' = [srv EXCEPT ![c] = Returned("")]
            /\ data' = Reclaim(fs, [srv EXCEPT ![c] = Returned("")], data)
            /\ s2c' = [s2c EXCEPT ![c] = @ \o Frame(Checksum(srv[c].h))]
  /\ UNCHANGED <<serverUp, fs, c2s, cClosed, cfgVars, cliVars, envVars>>

\* ------------------------------------------------------------ the client
\* The connections whose client has returned success.
Succeeded == {x \in Conns : cli[x].pc = "done" /\ cli[x].res = "ok"}

\* put or get returns res; main then exits, which closes the connection.  The
\* digest the client computed stays in h.
Exit(c, res) ==
  /\ cli' = [cli EXCEPT ![c].pc = "done", ![c].res = res, ![c].n = 0]
  /\ cClosed' = [cClosed EXCEPT ![c] = TRUE]

\* MessageHandler.ReceiveResponse: ok only for a Response that says so.
ResponseOk(r) == r.st = "msg" /\ r.env.t = "Response" /\ r.env.ok
\* MessageHandler.ReceiveRetrievalResponse, likewise.
RetrievalOk(r) == r.st = "msg" /\ r.env.t = "RetrievalResp" /\ r.env.ok

\* main and put up to SendStorageRequest: dial, os.Stat, the request.
PutStart(c) ==
  /\ kind[c] = "put"
  /\ cli[c].pc = "init"
  /\ IF csrc[c].exists
     THEN /\ cli' = [cli EXCEPT ![c] = Client("putAck", "", Succeeded)]
          /\ c2s' = [c2s EXCEPT ![c] = @ \o Frame(StorageReq(cname[c], Len(csrc[c].bytes)))]
          /\ UNCHANGED cClosed
     ELSE /\ cli' = [cli EXCEPT ![c] = Client("done", "stat failed", Succeeded)]
          /\ cClosed' = [cClosed EXCEPT ![c] = TRUE]
          /\ UNCHANGED c2s
  /\ UNCHANGED <<serverUp, fs, data, srv, s2c, cfgVars, lfile, envVars>>

\* put: the first ReceiveResponse, the acknowledgement that gates the payload.
PutAck(c) ==
  /\ cli[c].pc = "putAck"
  /\ LET r == Receive(s2c[c], SClosed(c)) IN
     /\ r.st # "block"
     /\ s2c' = [s2c EXCEPT ![c] = r.rest]
     /\ IF ResponseOk(r)
        THEN /\ cli' = [cli EXCEPT ![c].pc = "putCopy"]
             /\ UNCHANGED cClosed
        ELSE Exit(c, "server rejected storage request")
  /\ UNCHANGED <<serverUp, fs, data, srv, c2s, cfgVars, lfile, envVars>>

\* put: io.Copy(io.MultiWriter(msgHandler, h), file), one byte at a time,
\* then SendChecksumVerification.  A write to a connection the server has
\* closed may fail.
PutCopy(c) ==
  /\ cli[c].pc = "putCopy"
  /\ \E fails \in (IF SClosed(c) THEN BOOLEAN ELSE {FALSE}) :
       IF cli[c].n < Len(csrc[c].bytes)
       THEN IF fails
            THEN /\ Exit(c, "transfer failed")
                 /\ UNCHANGED c2s
            ELSE LET b == csrc[c].bytes[cli[c].n + 1] IN
                 /\ cli' = [cli EXCEPT ![c].h = MD5Write(@, b), ![c].n = @ + 1]
                 /\ c2s' = [c2s EXCEPT ![c] = Append(@, b)]
                 /\ UNCHANGED cClosed
       ELSE /\ ~fails
            /\ cli' = [cli EXCEPT ![c].pc = "putFinal"]
            /\ c2s' = [c2s EXCEPT ![c] = @ \o Frame(Checksum(cli[c].h))]
            /\ UNCHANGED cClosed
  /\ UNCHANGED <<serverUp, fs, data, srv, s2c, cfgVars, lfile, envVars>>

\* put: the final ReceiveResponse.
PutFinal(c) ==
  /\ cli[c].pc = "putFinal"
  /\ LET r == Receive(s2c[c], SClosed(c)) IN
     /\ r.st # "block"
     /\ s2c' = [s2c EXCEPT ![c] = r.rest]
     /\ Exit(c, IF ResponseOk(r) THEN "ok" ELSE "checksum verification failed")
  /\ UNCHANGED <<serverUp, fs, data, srv, c2s, cfgVars, lfile, envVars>>

\* main and get up to SendRetrievalRequest: dial, the exclusive create of
\* the local file, the request.
GetStart(c) ==
  /\ kind[c] = "get"
  /\ cli[c].pc = "init"
  /\ IF ~lfile[c].exists /\ ParentExists(cname[c], cdirs[c])
     THEN /\ lfile' = [lfile EXCEPT ![c] = File(<<>>)]
          /\ cli' = [cli EXCEPT ![c] = Client("getResp", "", Succeeded)]
          /\ c2s' = [c2s EXCEPT ![c] = @ \o Frame(RetrievalReq(cname[c]))]
          /\ UNCHANGED cClosed
     ELSE /\ cli' = [cli EXCEPT ![c] = Client("done", "failed to create file", Succeeded)]
          /\ cClosed' = [cClosed EXCEPT ![c] = TRUE]
          /\ UNCHANGED <<lfile, c2s>>
  /\ UNCHANGED <<serverUp, fs, data, srv, s2c, cfgVars, envVars>>

\* get: ReceiveRetrievalResponse.
GetResp(c) ==
  /\ cli[c].pc = "getResp"
  /\ LET r == Receive(s2c[c], SClosed(c)) IN
     /\ r.st # "block"
     /\ s2c' = [s2c EXCEPT ![c] = r.rest]
     /\ IF RetrievalOk(r)
        THEN /\ cli' = [cli EXCEPT ![c].pc = IF r.env.size = 0 THEN "getCksum" ELSE "getCopy",
                                   ![c].n = r.env.size]
             /\ UNCHANGED cClosed
        ELSE Exit(c, "server rejected retrieval request")
  /\ UNCHANGED <<serverUp, fs, data, srv, c2s, cfgVars, lfile, envVars>>

\* get: io.CopyN(io.MultiWriter(file, h), msgHandler, size), one byte at a time.
GetCopy(c) ==
  /\ cli[c].pc = "getCopy"
  /\ IF s2c[c] # <<>>
     THEN LET b == Head(s2c[c]) IN
          /\ lfile' = [lfile EXCEPT ![c].bytes = Append(@, b)]
          /\ cli' = [cli EXCEPT ![c].h = MD5Write(@, b), ![c].n = @ - 1,
                                ![c].pc = IF cli[c].n = 1 THEN "getCksum" ELSE "getCopy"]
          /\ s2c' = [s2c EXCEPT ![c] = Tail(@)]
          /\ UNCHANGED cClosed
     ELSE /\ SClosed(c)
          /\ Exit(c, "transfer failed")
          /\ UNCHANGED <<lfile, s2c>>
  /\ UNCHANGED <<serverUp, fs, data, srv, c2s, cfgVars, envVars>>

KeepFileMutant(f) == f
\* get: os.Remove(fileName) of the local file.
RemoveLocal(f) == NoFile

\* get: the Receive of the trailing checksum and the comparison.  checkMsg is
\* nil after a failed Receive and GetChecksum() is nil for another variant:
\* reading the Checksum field then panics, and the local file stays.
GetChecksum(c) ==
  /\ cli[c].pc = "getCksum"
  /\ LET r == Receive(s2c[c], SClosed(c)) IN
     /\ r.st # "block"
     /\ s2c' = [s2c EXCEPT ![c] = r.rest]
     /\ IF r.st # "msg" \/ r.env.t # "Checksum"
        THEN /\ Exit(c, "panic")
             /\ UNCHANGED lfile
        ELSE IF VerifyChecksum(r.env.checksum, cli[c].h)
        THEN /\ Exit(c, "ok")
             /\ UNCHANGED lfile
        ELSE /\ Exit(c, "checksum mismatch")
             /\ lfile' = [lfile EXCEPT ![c] = RemoveLocal(@)]
  /\ UNCHANGED <<serverUp, fs, data, srv, c2s, cfgVars, envVars>>

\* ----------------------------------------------- a client of its own mind
\* What a client that does not follow put or get may write in one piece: a
\* request for its file name, a checksum (of no bytes, or of the byte 0), a
\* response, or one raw byte (0 is also the frame of the empty envelope).
RawEnvelopes(name) ==
  {StorageReq(name, k) : k \in 0..MaxLen}
    \cup {RetrievalReq(name)}
    \cup {Checksum(MD5Of(<<>>)), Checksum(MD5Of(<<0>>))}
    \cup {Response(TRUE, "Ready for data")}
RawItems(name) == {Frame(e) : e \in RawEnvelopes(name)} \cup {<<b>> : b \in Byte}

RawSend(c) ==
  /\ kind[c] = "raw"
  /\ cli[c].pc \in {"init", "raw"}
  /\ rawLeft > 0
  /\ \E item \in RawItems(cname[c]) : c2s' = [c2s EXCEPT ![c] = @ \o item]
  /\ cli' = [cli EXCEPT ![c].pc = "raw"]
  /\ rawLeft' = rawLeft - 1
  /\ UNCHANGED <<serverUp, fs, data, srv, s2c, cClosed, cfgVars, lfile, corruptLeft>>

RawClose(c) ==
  /\ kind[c] = "raw"
  /\ cli[c].pc \in {"init", "raw"}
  /\ cli' = [cli EXCEPT ![c].pc = "done"]
  /\ cClosed' = [cClosed EXCEPT ![c] = TRUE]
  /\ UNCHANGED <<serverUp, fs, data, srv, c2s, s2c, cfgVars, lfile, envVars>>

\* ---------------------------------------------------------- the transport
\* One bit of one byte is flipped in flight, in the direction the file
\* travels: what a put wrote, or what the server wrote to a get.
FlipBit(x) == IF x % 2 = 0 THEN x + 1 ELSE x - 1

Corrupt(c) ==
  /\ corruptLeft > 0
  /\ corruptLeft' = corruptLeft - 1
  /\ kind[c] \in {"put", "get"}
  /\ IF kind[c] = "put"
       THEN /\ \E i \in DOMAIN c2s[c] : c2s' = [c2s EXCEPT ![c][i] = FlipBit(@)]
            /\ UNCHANGED s2c
       ELSE /\ \E i \in DOMAIN s2c[c] : s2c' = [s2c EXCEPT ![c][i] = FlipBit(@)]
            /\ UNCHANGED c2s
  /\ UNCHANGED <<serverUp, fs, data, srv, cClosed, cfgVars, cliVars, rawLeft>>

\* ------------------------------------------------------- specifications
Builds == {"server_saloni", "saloni_server"}

\* The state once the server listens and no client has dialed: some of the
\* names exist in the storage directory, the download directory is empty.
InitCommon ==
  /\ build \in Builds
  /\ serverUp = TRUE
  /\ \E present \in SUBSET Names : fs = InitFs(present) /\ data = InitData(present)
  /\ srv = [c \in Conns |-> Handler("none")]
  /\ c2s = [c \in Conns |-> <<>>]
  /\ s2c = [c \in Conns |-> <<>>]
  /\ cClosed = [c \in Conns |-> FALSE]
  /\ cli = [c \in Conns |-> Client("init", "", {})]
  /\ lfile = [c \in Conns |-> NoFile]

\* The command lines of a put and of a get.
PutArgs == [kind : {"put"}, name : Names, src : {File(p) : p \in Payloads} \cup {NoFile},
            dirs : {{}}]
GetArgs == [kind : {"get"}, name : Names, src : {NoFile}, dirs : DownloadDirs]
RawArgs == [kind : {"raw"}, name : Names, src : {NoFile}, dirs : {{}}]
OffArgs == [kind : {"off"}, name : {NameTable[1]}, src : {NoFile}, dirs : {{}}]

Configured(args) ==
  /\ kind = [c \in Conns |-> args[c].kind]
  /\ cname = [c \in Conns |-> args[c].name]
  /\ csrc = [c \in Conns |-> args[c].src]
  /\ cdirs = [c \in Conns |-> args[c].dirs]

Server(c) ==
  \/ Accept(c)
  \/ HandleClient(c)
  \/ StorageCopy(c)
  \/ StorageChecksum(c)
  \/ RetrievalOpen(c)
  \/ RetrievalSend(c)

Put(c) == PutStart(c) \/ PutAck(c) \/ PutCopy(c) \/ PutFinal(c)
Get(c) == GetStart(c) \/ GetResp(c) \/ GetCopy(c) \/ GetChecksum(c)

\* Every connection runs the client program, a put or a get.
Init ==
  /\ InitCommon
  /\ rawLeft = MaxRaw
  /\ corruptLeft = 0
  /\ \E args \in [Conns -> PutArgs \cup GetArgs] : Configured(args)

Next == \E c \in Conns : Server(c) \/ Put(c) \/ Get(c)

Spec == Init /\ [][Next]_vars

\* The Go scheduler runs every runnable goroutine and the operating system
\* every runnable client process: a handler or a client that can take its next
\* step eventually takes it.
Fairness ==
  \A c \in Conns : WF_vars(Server(c)) /\ WF_vars(Put(c)) /\ WF_vars(Get(c))

\* The runs whose progress is checked: every put reads the empty file or a
\* file of the greatest length.
FairPayloads == {<<>>, [i \in 1..MaxLen |-> (i - 1) % (MaxByte + 1)]}

InitFair ==
  /\ Init
  /\ \A c \in Conns : kind[c] = "put" => csrc[c] \in {File(p) : p \in FairPayloads}

FairSpec == InitFair /\ [][Next]_vars /\ Fairness

\* One connection, whose client writes what it likes.
InitRaw ==
  /\ InitCommon
  /\ rawLeft = MaxRaw
  /\ corruptLeft = 0
  /\ \E args \in [Conns -> RawArgs \cup OffArgs] :
       /\ Configured(args)
       /\ \A c \in Conns : args[c].kind = "raw" <=> c = 1

NextRaw == \E c \in Conns : Server(c) \/ RawSend(c) \/ RawClose(c)

SpecRaw == InitRaw /\ [][NextRaw]_vars

\* One connection running put or get over a transport that may flip a bit.
InitCorrupt ==
  /\ InitCommon
  /\ rawLeft = MaxRaw
  /\ corruptLeft = MaxCorrupt
  /\ \E args \in [Conns -> PutArgs \cup GetArgs \cup OffArgs] :
       /\ Configured(args)
       /\ \A c \in Conns : args[c].kind = "off" <=> c # 1

NextCorrupt == \E c \in Conns : Server(c) \/ Put(c) \/ Get(c) \/ Corrupt(c)

SpecCorrupt == InitCorrupt /\ [][NextCorrupt]_vars

\* A client that writes what it likes on one connection, the client program
\* on each of the others: a get, or a put of the empty file or of a file of
\* the greatest length.
InitMixed ==
  /\ InitCommon
  /\ rawLeft = MaxMixedRaw
  /\ corruptLeft = 0
  /\ \E args \in [Conns -> RawArgs \cup GetArgs \cup PutArgs] :
       /\ Configured(args)
       /\ \A c \in Conns : args[c].kind = "raw" <=> c = 1
       /\ \A c \in Conns :
            args[c].kind = "put" => args[c].src \in {File(p) : p \in FairPayloads}

NextMixed ==
  \E c \in Conns : Server(c) \/ Put(c) \/ Get(c) \/ RawSend(c) \/ RawClose(c)

SpecMixed == InitMixed /\ [][NextMixed]_vars

\* ================================================================ claims

\* A put on connection p returned success before the get on connection g was
\* started, both name the same file, and the get has returned.
PutThenGet(p, g) ==
  /\ kind[p] = "put" /\ kind[g] = "get"
  /\ cname[p] = cname[g]
  /\ p \in cli[g].after
  /\ cli[g].pc = "done"

\* The get left exactly the bytes the put read, and the digests the two
\* clients computed (each equal to the server's, or the exchange had failed)
\* are the digest of those bytes.
RoundTrip(p, g) ==
  /\ cli[g].res = "ok"
  /\ lfile[g] = File(csrc[p].bytes)
  /\ cli[p].h = MD5Of(csrc[p].bytes)
  /\ cli[g].h = cli[p].h

\* C1 as stated: round trip for every payload and every file name: after an
\* accepted put, a get of the same name into an empty download directory
\* leaves exactly the payload, with equal digests (server_saloni.go).
C1_RoundTripEveryName ==
  \A p, g \in Conns :
    build = "server_saloni" /\ PutThenGet(p, g) /\ cdirs[g] = {} => RoundTrip(p, g)

\* C1 amended: the round trip holds for every payload and every file name
\* without directory components.
C1_RoundTripPlainName ==
  \A p, g \in Conns :
    PutThenGet(p, g) /\ cdirs[g] = {} /\ Len(cname[g]) = 1 => RoundTrip(p, g)

C1_Witness ==
  \E p, g \in Conns :
    /\ PutThenGet(p, g) /\ cdirs[g] = {} /\ Len(cname[g]) = 1
    /\ RoundTrip(p, g)
    /\ Len(lfile[g].bytes) = MaxLen

\* The handler of connection c takes a step in this one: it alone moves its
\* position, shortens the stream it reads or lengthens the one it writes.
HandlerSteps(c) ==
  /\ serverUp /\ serverUp'
  /\ \/ srv'[c] # srv[c]
     \/ Len(c2s'[c]) < Len(c2s[c])
     \/ Len(s2c'[c]) > Len(s2c[c])

\* The handler of connection c, waiting in handleClient's Receive, is handed
\* the envelope of r in this step.
Dispatches(c, r) == HandlerSteps(c) /\ srv[c].pc = "recv" /\ r.st = "msg"

\* C2: a StorageRequest naming a file that exists is answered with
\* Response{ok:false}; handleStorage reads nothing beyond the request frame,
\* the filesystem and every file's bytes stay as they were, and the handler is
\* back at Receive, so the next bytes are read as a framed envelope
\* (server_saloni.go).
C2_RejectExisting ==
  [][\A c \in Conns :
       LET r == Receive(c2s[c], cClosed[c]) IN
       (/\ build = "server_saloni"
        /\ Dispatches(c, r)
        /\ r.env.t = "StorageReq"
        /\ Exists(r.env.fileName))
       => /\ s2c'[c] = s2c[c] \o Frame(Response(FALSE, "error"))
          /\ fs' = fs /\ data' = data
          /\ srv'[c].pc = "recv" /\ srv'[c].fd = 0
          /\ c2s'[c] = Drop(c2s[c], c2s[c][1] + 1)]_vars

\* The rejection has been sent while a payload byte the client wrote anyway
\* is still unread; the existing file is intact.
C2_Witness ==
  \E c \in Conns :
    /\ build = "server_saloni"
    /\ srv[c].err = "open"
    /\ s2c[c] = Frame(Response(FALSE, "error"))
    /\ c2s[c] = <<1>>
    /\ \E n \in Names : fs[n] # 0 /\ data[fs[n]] = InitBytes(n)

\* C3: when the stream closes after "Ready for data" and before size bytes
\* have arrived, handleStorage returns with the file it created gone: neither
\* the name nor any other name refers to it.
C3_TruncatedStoreLeavesNoFile ==
  [][\A c \in Conns :
       (/\ HandlerSteps(c)
        /\ srv[c].pc = "copy" /\ c2s[c] = <<>> /\ cClosed[c])
       => /\ srv'[c].err = "receiving data"
          /\ fs'[srv[c].name] = 0
          /\ \A n \in Names : fs'[n] # srv[c].fd]_vars

\* A store of two bytes was cut after the first: the handler has returned the
\* short read and the storage directory is empty again.
C3_Witness ==
  \E c \in Conns :
    /\ srv[c].err = "receiving data"
    /\ cClosed[c]
    /\ s2c[c] = Frame(Response(TRUE, "Ready for data"))
    /\ rawLeft = MaxRaw - 2
    /\ \A n \in Names : fs[n] = 0

\* C4: on the store path a trailing checksum that differs from the digest the
\* server computed makes the server delete the file it wrote and then send
\* Response{ok:false, "Checksum mismatch"}, handleStorage returning the
\* mismatch; the put on that connection then reports failure, never success.
C4_StoreMismatch ==
  /\ [][\A c \in Conns :
          LET r == Receive(c2s[c], cClosed[c]) IN
          (/\ HandlerSteps(c) /\ srv[c].pc = "cksum"
           /\ r.st = "msg" /\ r.env.t = "Checksum"
           /\ r.env.checksum # srv[c].h)
          => /\ fs'[srv[c].name] = 0
             /\ \A n \in Names : fs'[n] # srv[c].fd
             /\ s2c'[c] = s2c[c] \o Frame(Response(FALSE, "Checksum mismatch"))
             /\ srv'[c].err = "checksum mismatch"]_vars
  /\ [](\A c \in Conns :
          kind[c] = "put" /\ srv[c].err = "checksum mismatch" /\ cli[c].pc = "done"
          => cli[c].res # "ok")

\* A put whose bytes were damaged in flight has reported the failure; the
\* server returned the mismatch and the name it stored under is gone.
C4_Witness ==
  \E c \in Conns :
    /\ kind[c] = "put"
    /\ srv[c].err = "checksum mismatch"
    /\ cli[c].pc = "done" /\ cli[c].res = "checksum verification failed"
    /\ Len(csrc[c].bytes) = MaxLen
    /\ fs[StoreName(build, cname[c])] = 0

\* C5: on the client's retrieve path a trailing checksum that differs from
\* the digest computed over the size bytes read makes get delete the local
\* file and return the checksum mismatch; the local file then does not exist.
C5_GetMismatch ==
  /\ [][\A c \in Conns :
          LET r == Receive(s2c[c], SClosed(c)) IN
          (/\ cli[c].pc = "getCksum"
           /\ r.st = "msg" /\ r.env.t = "Checksum"
           /\ r.env.checksum # cli[c].h
           /\ cli'[c] # cli[c])
          => /\ cli'[c].pc = "done" /\ cli'[c].res = "checksum mismatch"
             /\ lfile'[c] = NoFile]_vars
  /\ [](\A c \in Conns : cli[c].res = "checksum mismatch" => ~lfile[c].exists)

\* A get read all the bytes the server declared, one of them damaged in
\* flight, and returned the mismatch with no local file left.
C5_Witness ==
  \E c \in Conns :
    /\ kind[c] = "get"
    /\ cli[c].res = "checksum mismatch"
    /\ cli[c].h # MD5New
    /\ ~lfile[c].exists

\* C6: a get of a file the server does not have is rejected, and the rejected
\* get has created no local file (the local exclusive create does not come
\* before the RetrievalResponse).
C6_RejectedGetCreatesNoFile ==
  \A c \in Conns :
    kind[c] = "get" /\ cli[c].res = "server rejected retrieval request"
    => ~lfile[c].exists

\* C7: in every retrieve exchange the server has written exactly the size it
\* declared (the length at stat time) when it sends the trailing checksum,
\* whatever stores run on other connections; and a put has written exactly
\* the size it declared when it sends its checksum.
C7_ExactSize ==
  [][\A c \in Conns :
       /\ (srv[c].pc = "send" /\ srv'[c].pc = "recv" /\ srv'[c].err = "")
          => srv[c].off = srv[c].size
       /\ (cli[c].pc = "putCopy" /\ cli'[c].pc = "putFinal")
          => cli[c].n = Len(csrc[c].bytes)]_vars

\* C8: after handleStorage or handleRetrieval has returned an error, the
\* handler is in handleClient's Receive on the same, still open connection.
C8_ErrorKeepsConnection ==
  \A c \in Conns : srv[c].err # "" => srv[c].pc = "recv" /\ serverUp

\* A store failed its checksum; the handler is receiving again, the client
\* has not closed and its next envelope is already on the stream.
C8_Witness ==
  \E c \in Conns :
    /\ srv[c].err = "checksum mismatch"
    /\ srv[c].pc = "recv"
    /\ ~cClosed[c]
    /\ c2s[c] # <<>>

\* The Receive of handleClient's loop returns r to the handler of connection
\* c in this step.
Turn(c, r) == HandlerSteps(c) /\ srv[c].pc = "recv" /\ r.st # "block"

\* The handler of connection c ends in this step, the process living on.
LoopEnds(c) == srv[c].pc \notin {"none", "closed"} /\ srv'[c].pc = "closed" /\ serverUp'

\* C9 as stated: the loop ends, closing the connection, exactly when Receive
\* fails or the envelope is empty or of a variant other than the two requests.
C9_ClosesOnUnexpectedVariant ==
  [][\A c \in Conns :
       LET r == Receive(c2s[c], cClosed[c]) IN
       /\ Turn(c, r) =>
            (srv'[c].pc = "closed"
               <=> (r.st # "msg" \/ r.env.t \notin {"StorageReq", "RetrievalReq"}))
       /\ LoopEnds(c) => Turn(c, r)]_vars

\* C9 amended: handleClient's loop returns, closing the connection, exactly
\* when Receive fails or the envelope is empty; an envelope of another variant
\* than the two requests is only logged and the loop receives again.
C9_ClosesOnFailureOrEmpty ==
  [][\A c \in Conns :
       LET r == Receive(c2s[c], cClosed[c]) IN
       /\ Turn(c, r) =>
            /\ srv'[c].pc = "closed" <=> (r.st # "msg" \/ r.env.t = "Empty")
            /\ (r.st = "msg" /\ r.env.t \in {"Response", "RetrievalResp", "Checksum"})
                 => srv'[c].pc = "recv"
       /\ LoopEnds(c) => Turn(c, r)]_vars

\* The one envelope the client wrote was taken off the stream, nothing was
\* answered and the handler is receiving again: it was a Response or a
\* ChecksumMessage where a request was expected.
C9_Witness ==
  \E c \in Conns :
    /\ kind[c] = "raw" /\ cli[c].pc = "raw"
    /\ rawLeft = MaxRaw - 1
    /\ c2s[c] = <<>> /\ s2c[c] = <<>>
    /\ srv[c].pc = "recv"

InStore(c) == srv[c].pc \in {"copy", "cksum"}
IsPrefix(s, t) == Len(s) <= Len(t) /\ s = SubSeq(t, 1, Len(s))

\* C10: of the stores in progress at most one holds a given name, the name
\* refers to the file that store created, and the bytes of every file are the
\* file's initial bytes or a prefix of the payload of one put: never a mix of
\* two payloads.
C10_ExclusiveCreate ==
  /\ \A c \in Conns : InStore(c) => fs[srv[c].name] = srv[c].fd
  /\ \A c, d \in Conns :
       c # d /\ InStore(c) /\ InStore(d)
       => srv[c].name # srv[d].name /\ srv[c].fd # srv[d].fd
  /\ \A c \in Conns :
       InStore(c) /\ kind[c] = "put" => IsPrefix(data[srv[c].fd], csrc[c].bytes)
  /\ \A n \in Names :
       fs[n] # 0 =>
         \/ data[fs[n]] = InitBytes(n)
         \/ \E c \in Conns :
              /\ kind[c] = "put" /\ StoreName(build, cname[c]) = n
              /\ IsPrefix(data[fs[n]], csrc[c].bytes)

\* Two puts of the same name with different payloads: one is writing its
\* first byte while the other has been rejected.
C10_Witness ==
  \E c, d \in Conns :
    /\ c # d /\ kind[c] = "put" /\ kind[d] = "put"
    /\ cname[c] = cname[d] /\ csrc[c] # csrc[d]
    /\ csrc[d].exists
    /\ srv[c].pc = "copy" /\ Len(data[srv[c].fd]) = 1
    /\ cli[d].res = "server rejected storage request"

\* The client of connection c writes to the connection in this step.
ClientWrites(c) == Len(c2s'[c]) > Len(c2s[c])

\* The handler of connection c sends Response{ok:true, "Ready for data"} in
\* this step.
SendsReady(c) ==
  s2c'[c] # s2c[c] /\ s2c'[c] = s2c[c] \o Frame(Response(TRUE, "Ready for data"))

\* C11: the acknowledgement gate.  A put writes nothing but its request before
\* it has received a Response with ok:true, and only then the payload and the
\* checksum; the server sends that Response in the step whose exclusive create
\* made the destination file (absent before, empty and held by this handler
\* after); on any other answer the put returns having written nothing more.
C11_AckGate ==
  [][\A c \in Conns :
       LET r == Receive(s2c[c], SClosed(c))
           q == Receive(c2s[c], cClosed[c])
       IN
       /\ (kind[c] = "put" /\ ClientWrites(c))
            => \/ /\ cli[c].pc = "init"
                  /\ c2s'[c] = c2s[c] \o Frame(StorageReq(cname[c], Len(csrc[c].bytes)))
               \/ cli[c].pc = "putCopy"
       /\ (cli[c].pc # "putCopy" /\ cli'[c].pc = "putCopy")
            => /\ cli[c].pc = "putAck"
               /\ r.st = "msg" /\ r.env.t = "Response" /\ r.env.ok
       /\ (/\ cli[c].pc = "putAck" /\ cli'[c] # cli[c]
           /\ ~(r.st = "msg" /\ r.env.t = "Response" /\ r.env.ok))
            => /\ cli'[c].pc = "done"
               /\ cli'[c].res = "server rejected storage request"
               /\ c2s'[c] = c2s[c]
       /\ SendsReady(c)
            => /\ q.st = "msg" /\ q.env.t = "StorageReq"
               /\ fs[StoreName(build, q.env.fileName)] = 0
               /\ fs'[StoreName(build, q.env.fileName)] = srv'[c].fd
               /\ srv'[c].fd # 0
               /\ \A n \in Names : fs[n] # srv'[c].fd
               /\ data'[srv'[c].fd] = <<>>]_vars

\* Two puts of the same name: one was acknowledged and has written its first
\* payload byte into the file the server created for it; the other was
\* answered ok:false and returned with nothing of its own left on the stream
\* but the request the server already read.
C11_Witness ==
  \E c, d \in Conns :
    /\ c # d /\ kind[c] = "put" /\ kind[d] = "put"
    /\ cli[c].pc = "putCopy" /\ cli[c].n = 1
    /\ fs[StoreName(build, cname[c])] = srv[c].fd /\ srv[c].fd # 0
    /\ cli[d].res = "server rejected storage request"
    /\ csrc[d].exists /\ Len(csrc[d].bytes) > 0
    /\ c2s[d] = <<>>

\* The handler of connection c is inside handleStorage or handleRetrieval.
InExchange(c) == srv[c].pc \in {"copy", "cksum", "open", "send"}

\* The handler of connection c reads from the connection in this step.
HandlerReads(c) == Len(c2s'[c]) < Len(c2s[c])

FinalResponses ==
  {Response(TRUE, "File stored successfully"), Response(FALSE, "Checksum mismatch")}

\* C12: within one connection the exchanges are sequential.  An exchange
\* begins only from handleClient's Receive, with no exchange in progress; a
\* store then sends the ack, reads exactly the declared bytes as payload (one
\* byte a step, into its file, whatever they are), then one envelope as the
\* checksum, then sends the final response or takes a failure path, and only
\* then is the handler at Receive again; a retrieve reads nothing.  Outside an
\* exchange the handler holds no file.
C12_Sequential ==
  /\ [][\A c \in Conns :
          HandlerSteps(c) =>
            /\ (~InExchange(c) /\ InExchange(c)') => srv[c].pc = "recv"
            /\ SendsReady(c) => srv[c].pc = "recv" /\ InStore(c)'
            /\ srv[c].pc = "copy" =>
                 /\ s2c'[c] = s2c[c]
                 /\ \/ /\ c2s[c] # <<>>
                       /\ c2s'[c] = Tail(c2s[c])
                       /\ data'[srv[c].fd] = Append(data[srv[c].fd], Head(c2s[c]))
                       /\ srv'[c].size = srv[c].size - 1
                       /\ srv'[c].pc = (IF srv[c].size = 1 THEN "cksum" ELSE "copy")
                    \/ /\ c2s[c] = <<>>
                       /\ srv'[c].pc = "recv" /\ srv'[c].err = "receiving data"
            /\ srv[c].pc = "cksum" =>
                 /\ srv'[c].pc = "recv"
                 /\ \/ \E e \in FinalResponses : s2c'[c] = s2c[c] \o Frame(e)
                    \/ srv'[c].err = "receiving checksum" /\ s2c'[c] = s2c[c]
            /\ (\E e \in FinalResponses : s2c'[c] = s2c[c] \o Frame(e))
                 => srv[c].pc = "cksum"
            /\ srv[c].pc \in {"open", "send"} =>
                 /\ ~HandlerReads(c)
                 /\ srv'[c].pc \in {"send", "recv"}
            /\ HandlerReads(c) => srv[c].pc \in {"recv", "copy", "cksum"}]_vars
  /\ [](\A c \in Conns :
          /\ ~InExchange(c) => srv[c].fd = 0
          /\ srv[c].pc = "copy" => srv[c].size > 0
          /\ InStore(c) => srv[c].fd # 0)

\* A client wrote a StorageRequest of two bytes and, without waiting, a
\* RetrievalRequest: the store read the first two bytes of that frame as its
\* payload and is now waiting for the checksum; no retrieve was started.
C12_Witness ==
  \E c \in Conns :
    /\ kind[c] = "raw"
    /\ rawLeft = MaxRaw - 2
    /\ srv[c].pc = "cksum"
    /\ data[srv[c].fd] = SubSeq(Frame(RetrievalReq(cname[c])), 1, 2)
    /\ c2s[c] = Drop(Frame(RetrievalReq(cname[c])), 2)
    /\ s2c[c] = Frame(Response(TRUE, "Ready for data"))

\* The ways a get ends on a data-integrity failure: the stream closed inside
\* the payload, it closed (or carried another envelope) where the trailing
\* checksum was due, or the checksum differed.
IntegrityFailures == {"transfer failed", "panic", "checksum mismatch"}

\* C13: every data-integrity failure of a get leaves no local file: when the
\* stream closes while get reads the declared bytes, or before the trailing
\* checksum arrives, or the checksum differs, the partially written local
\* file does not exist once get has ended.
C13_FailedGetLeavesNoFile ==
  \A c \in Conns :
    kind[c] = "get" /\ cli[c].pc = "done" /\ cli[c].res \in IntegrityFailures
    => ~lfile[c].exists

\* C14: whatever one client sends, an envelope that is not a ChecksumMessage
\* where the trailing checksum of a store is due included, the server process
\* does not terminate: main's accept loop and the handlers of the other
\* connections keep serving.
C14_ServerNeverTerminates == serverUp

\* C15: handleStorage creates the destination file under exactly the fileName
\* of the StorageRequest, so a later RetrievalRequest of that fileName, with
\* directory components or without, addresses the file the store created: a
\* get started after an accepted put of the same name retrieves the put's
\* bytes (saloni_server.go).
C15_StoreUsesNameAsGiven ==
  /\ [][\A c \in Conns :
          LET q == Receive(c2s[c], cClosed[c]) IN
          SendsReady(c) =>
            /\ fs[q.env.fileName] = 0
            /\ fs'[q.env.fileName] = srv'[c].fd
            /\ srv'[c].name = q.env.fileName]_vars
  /\ [](\A p, g \in Conns :
          PutThenGet(p, g) /\ ParentExists(cname[g], cdirs[g]) => RoundTrip(p, g))

\* The get of connection c has ended with exactly the bytes the server held
\* under its name at the start, the checksum it received being the digest it
\* computed, which is the digest of those bytes.
Retrieved(c) ==
  /\ cli[c].pc = "done" /\ cli[c].res = "ok"
  /\ lfile[c] = File(InitBytes(cname[c]))
  /\ cli[c].h = MD5Of(InitBytes(cname[c]))

\* Two gets of different names, both files on the server, each download
\* directory able to hold its file, neither client started yet.
TwoGets(c, d) ==
  /\ c # d /\ kind[c] = "get" /\ kind[d] = "get"
  /\ cname[c] # cname[d]
  /\ \A x \in {c, d} :
       /\ cli[x].pc = "init"
       /\ Exists(cname[x]) /\ data[fs[cname[x]]] = InitBytes(cname[x])
       /\ ParentExists(cname[x], cdirs[x])

\* C16: when two connections retrieve two different existing files that no
\* store touches, then under fair scheduling both exchanges complete, each
\* client holding exactly its file's bytes and having received a checksum
\* equal to its own digest, whatever the interleaving of the two handlers.
C16_TwoRetrievesComplete ==
  \A c \in Conns : \A d \in (c + 1)..NumConn :
    TwoGets(c, d) ~> (Retrieved(c) /\ Retrieved(d))

\* Both gets have completed, and their files differ.
C16_Witness ==
  \E c, d \in Conns :
    /\ c # d /\ kind[c] = "get" /\ kind[d] = "get"
    /\ cname[c] # cname[d]
    /\ Retrieved(c) /\ Retrieved(d)
    /\ lfile[c] # lfile[d]

\* The handler of connection c leaves handleStorage in this step, by return
\* or because the process ends.
LeavesStore(c) == InStore(c) /\ ~InStore(c)'

\* C17: when the connection fails after all size payload bytes were read and
\* before the trailing ChecksumMessage is received, handleStorage deletes the
\* file it wrote, sends no Response and returns an error; and whenever a store
\* ends with its file still under the name it created, the server has sent
\* Response{ok:true, "File stored successfully"} for it.
C17_FileLeftOnlyOnSuccess ==
  [][\A c \in Conns :
       LET r == Receive(c2s[c], cClosed[c]) IN
       /\ (HandlerSteps(c) /\ srv[c].pc = "cksum" /\ r.st \in {"eof", "err"})
            => /\ fs'[srv[c].name] = 0
               /\ \A n \in Names : fs'[n] # srv[c].fd
               /\ s2c'[c] = s2c[c]
               /\ srv'[c].err = "receiving checksum"
       /\ (LeavesStore(c) /\ fs'[srv[c].name] = srv[c].fd)
            => s2c'[c] = s2c[c] \o Frame(Response(TRUE, "File stored successfully"))]_vars

\* The name n is deleted in this step.
Deleted(n) == fs[n] # 0 /\ fs'[n] = 0

\* The errors handleStorage returns after its exclusive create.
StoreFailures == {"receiving data", "receiving checksum", "checksum mismatch"}

\* C18: a store handler deletes a file only if that same exchange created it.
\* The file a store creates is new (no name and no other handler referred to
\* it); while the store runs its name refers to that file; a name is deleted
\* only by the failing store that holds it, which touches no other name; so a
\* failing store never removes a file that existed before its request or that
\* another connection's store created.
C18_DeletesOnlyOwnFile ==
  /\ [][/\ \A n \in Names :
             Deleted(n) =>
               \E c \in Conns :
                 /\ InStore(c) /\ srv[c].name = n /\ srv[c].fd = fs[n]
                 /\ srv'[c].err \in StoreFailures
                 /\ \A m \in Names \ {n} : fs'[m] = fs[m]
        /\ \A c \in Conns :
             (~InStore(c) /\ InStore(c)') =>
               /\ fs[srv'[c].name] = 0
               /\ fs'[srv'[c].name] = srv'[c].fd
               /\ \A n \in Names : fs[n] # srv'[c].fd
               /\ \A d \in Conns : srv[d].fd # srv'[c].fd
        /\ \A c \in Conns :
             (InStore(c) /\ srv'[c].err \in StoreFailures) =>
               \A n \in Names : fs'[n] # fs[n] => n = srv[c].name /\ fs[n] = srv[c].fd
       ]_vars
  /\ [](\A c \in Conns : InStore(c) => fs[srv[c].name] = srv[c].fd)

\* A store was cut short and has deleted the file it created; a put of the
\* same name on another connection was accepted after that and holds the
\* name now, its file untouched by the failed store.
C18_Witness ==
  \E c, d \in Conns :
    /\ c # d /\ kind[c] = "raw" /\ kind[d] = "put"
    /\ srv[c].err \in StoreFailures
    /\ StoreName(build, cname[c]) = StoreName(build, cname[d])
    /\ InStore(d) /\ fs[srv[d].name] = srv[d].fd
    /\ data[srv[d].fd] # <<>>

\* The handler of connection c is inside handleRetrieval after os.Stat.
InRetrieval(c) == srv[c].pc \in {"open", "send"}

\* C19: handleRetrieval leaves the server's filesystem unchanged on every
\* path (missing file, open failure, send failure, success): in each of its
\* steps every name refers to the file it referred to, and every file that
\* has a name or is open in another handler keeps its bytes.
C19_RetrievalChangesNoFile ==
  [][\A c \in Conns :
       LET r == Receive(c2s[c], cClosed[c]) IN
       (/\ HandlerSteps(c)
        /\ \/ InRetrieval(c)
           \/ Dispatches(c, r) /\ r.env.t = "RetrievalReq")
       => /\ fs' = fs
          /\ \A n \in Names : fs[n] # 0 => data'[fs[n]] = data[fs[n]]
          /\ \A d \in Conns \ {c} :
               srv[d].fd # 0 => data'[srv[d].fd] = data[srv[d].fd]]_vars

\* A get whose file was there at os.Stat and gone at os.Open (a failing store
\* on the other connection deleted what it had created) was answered
\* ok:false; the file the server held from the start is as it was.
C19_Witness ==
  \E c \in Conns :
    /\ kind[c] = "get"
    /\ srv[c].err = "open"
    /\ cli[c].res = "server rejected retrieval request"
    /\ \E n \in Names : fs[n] # 0 /\ data[fs[n]] = InitBytes(n) /\ n # cname[c]

\* The store of connection c has ended with its final Response sent, the
\* handler is in handleClient's Receive again and the connection is open.
StoreDone(c) ==
  /\ serverUp
  /\ srv[c].pc = "recv"
  /\ ~cClosed[c]
  /\ \E e \in FinalResponses : s2c[c] = Frame(e)

\* C20: liveness of store.  When the client follows the protocol (a put: the
\* declared number of bytes, none for size 0, then the ChecksumMessage) and
\* keeps the connection open, then under fair scheduling every store exchange
\* the server accepted ends with the final Response sent and the handler
\* waiting for the next request on the still open connection.
C20_StoreCompletes ==
  \A c \in Conns : (kind[c] = "put" /\ InStore(c)) ~> StoreDone(c)

\* Two stores have completed, one of the empty file and one of a file of the
\* greatest length; both handlers are receiving again and neither client has
\* read its final Response yet.
C20_Witness ==
  \E c, d \in Conns :
    /\ kind[c] = "put" /\ kind[d] = "put"
    /\ csrc[c].bytes = <<>> /\ Len(csrc[d].bytes) = MaxLen
    /\ StoreDone(c) /\ StoreDone(d)
    /\ srv[c].err = "" /\ srv[d].err = ""
    /\ data[fs[StoreName(build, cname[d])]] = csrc[d].bytes
====
